---- MODULE Spec2Model ----
(***************************************************************************)
(* Model of bin/scripts/extract_cards.py: the card extraction pipeline.    *)
(*                                                                         *)
(* Strings are sequences of one-character strings.  Markup (the result of  *)
(* str(node), the argument of BeautifulSoup(...)) is a sequence of symbols: *)
(* characters, character entities, and tag tokens such as "<p>", "</p>".   *)
(* A parsed tree (a soup) is the sequence of its nodes in document order,  *)
(* each with the index of its parent (0: the BeautifulSoup object itself). *)
(***************************************************************************)
EXTENDS Integers, Sequences, FiniteSets, TLC

VARIABLES
    \* flexible_match called on its own
    target, text, threshold, fm_pc, fm_value,
    \* validate_and_clean_cards called on its own
    cards_data, v_pc, cleaned_cards, seen,
    \* identify_card_boundaries
    o_pc, o_calls, o_response, o_result, o_slept,
    \* extract_card_html and the loop of process_document over its result
    soup, cards, pc, i, start_text, end_text, start_elem, end_elem,
    cards_with_html, log, anchors, cleaned,
    \* clean_card_content called on its own
    html_content, author, c_pc, c_soup, c_first, c_parts

matchVars   == <<target, text, threshold, fm_pc, fm_value>>
valVars     == <<cards_data, v_pc, cleaned_cards, seen>>
oracleVars  == <<o_pc, o_calls, o_response, o_result, o_slept>>
extractVars == <<soup, cards, pc, i, start_text, end_text, start_elem, end_elem,
                 cards_with_html, log, anchors, cleaned>>
cleanVars   == <<html_content, author, c_pc, c_soup, c_first, c_parts>>
vars        == <<matchVars, valVars, oracleVars, extractVars, cleanVars>>

(***************************************************************************)
(* Strings                                                                 *)
(***************************************************************************)
NBSP == "U+00A0"

\* str.isspace(): what str.split() and str.strip() treat as whitespace
Whitespace == {" ", "\n", "\t", NBSP}

IsSpace(c) == c \in Whitespace

UpperToLower ==
    [c \in {"A", "B", "T", "X", "Y"} |->
        CASE c = "A" -> "a" [] c = "B" -> "b" [] c = "T" -> "t"
          [] c = "X" -> "x" [] c = "Y" -> "y"]

\* str.lower()
Lower(s) ==
    [n \in 1..Len(s) |-> IF s[n] \in DOMAIN UpperToLower THEN UpperToLower[s[n]] ELSE s[n]]

\* the n-th smallest element of a set of numbers
Nth(S, n) == CHOOSE x \in S : Cardinality({y \in S : y < x}) = n - 1

\* str.split(): the maximal runs of non-whitespace characters
SplitWords(s) ==
    LET starts == {n \in 1..Len(s) : ~IsSpace(s[n]) /\ (n = 1 \/ IsSpace(s[n - 1]))}
        stop(n) == CHOOSE e \in n..Len(s) :
                      /\ \A m \in n..e : ~IsSpace(s[m])
                      /\ (e = Len(s) \/ IsSpace(s[e + 1]))
    IN  [k \in 1..Cardinality(starts) |-> SubSeq(s, Nth(starts, k), stop(Nth(starts, k)))]

RECURSIVE LStrip(_)
LStrip(s) == IF s # <<>> /\ IsSpace(Head(s)) THEN LStrip(Tail(s)) ELSE s

RECURSIVE RStrip(_)
RStrip(s) ==
    IF s # <<>> /\ IsSpace(s[Len(s)]) THEN RStrip(SubSeq(s, 1, Len(s) - 1)) ELSE s

\* str.lstrip() where str.strip() was meant
LStripOnly(s) == LStrip(s)

\* str.strip()
Strip(s) == RStrip(LStrip(s))

\* s[n:n+len(t)] == t
OccursAt(s, t, n) ==
    /\ n + Len(t) - 1 <= Len(s)
    /\ \A m \in 1..Len(t) : s[n + m - 1] = t[m]

\* t in s
Contains(s, t) == \E n \in 1..(Len(s) + 1) : OccursAt(s, t, n)

RECURSIVE SplitOn(_, _, _)
SplitOn(s, sep, from) ==
    LET hits == {n \in from..Len(s) : OccursAt(s, sep, n)}
    IN  IF hits = {} THEN <<SubSeq(s, from, Len(s))>>
        ELSE LET h == CHOOSE x \in hits : \A y \in hits : x <= y
             IN  <<SubSeq(s, from, h - 1)>> \o SplitOn(s, sep, h + Len(sep))

\* str.split(sep), sep non-empty: the pieces between the occurrences of sep,
\* found left to right without overlap
Split(s, sep) == SplitOn(s, sep, 1)

RECURSIVE Join(_)
\* ''.join(parts)
Join(parts) == IF parts = <<>> THEN <<>> ELSE Head(parts) \o Join(Tail(parts))

Strings(chars, n) == UNION {[1..m -> chars] : m \in 0..n}

(***************************************************************************)
(* flexible_match                                                          *)
(***************************************************************************)
DefaultThreshold == [num |-> 8, den |-> 10]

\* "word in text" on the text itself, not on its words: a substring test
FlexibleMatchSubstring(tgt, txt, thr) ==
    LET target_words == SplitWords(Lower(tgt))
        matches == Cardinality({n \in 1..Len(target_words) :
                       Contains(Lower(txt), target_words[n])})
    IN  IF Len(target_words) = 0
        THEN [raised |-> TRUE, value |-> FALSE]
        ELSE [raised |-> FALSE,
              value |-> matches * thr.den >= thr.num * Len(target_words)]

\* matches / len(target_words) >= threshold, the threshold being num/den;
\* raised: the division by len(target_words) = 0
FlexibleMatch(tgt, txt, thr) ==
    LET target_words == SplitWords(Lower(tgt))
        text_words   == SplitWords(Lower(txt))
        matches == Cardinality({n \in 1..Len(target_words) :
                       \E m \in 1..Len(text_words) : text_words[m] = target_words[n]})
    IN  IF Len(target_words) = 0
        THEN [raised |-> TRUE, value |-> FALSE]
        ELSE [raised |-> FALSE,
              value |-> matches * thr.den >= thr.num * Len(target_words)]

MaxMatchLen == 3

MatchChars == {"a", "B", " "}

Thresholds == {DefaultThreshold, [num |-> 1, den |-> 1], [num |-> 1, den |-> 2],
               [num |-> 0, den |-> 1]}

MatchIdle ==
    /\ target = <<>> /\ text = <<>> /\ threshold = DefaultThreshold
    /\ fm_pc = "idle" /\ fm_value = FALSE

MatchStart ==
    /\ target \in Strings(MatchChars, MaxMatchLen)
    /\ text \in Strings(MatchChars, MaxMatchLen)
    /\ threshold \in Thresholds
    /\ fm_pc = "call"
    /\ fm_value = FALSE

FlexibleMatchCall ==
    /\ fm_pc = "call"
    /\ LET r == FlexibleMatch(target, text, threshold)
       IN  \/ /\ ~r.raised
              /\ fm_pc' = "returned"
              /\ fm_value' = r.value
           \/ /\ r.raised
              /\ fm_pc' = "raised"
              /\ fm_value' = FALSE
    /\ UNCHANGED <<target, text, threshold, valVars, oracleVars, extractVars, cleanVars>>

(***************************************************************************)
(* validate_and_clean_cards                                                *)
(*                                                                         *)
(* A parsed JSON value is [type, items]: items are the entries of a list.  *)
(* An entry is [type, fields]; a field is [kind, s]: a string s, a value   *)
(* that is no string ("num"), or no such key ("missing").                  *)
(***************************************************************************)
CardKeys == {"author", "start", "end"}

FMissing == [kind |-> "missing", s |-> <<>>]

FNum == [kind |-> "num", s |-> <<>>]

FStr(s) == [kind |-> "str", s |-> s]

\* card.get(key, '')
Get(card, key) ==
    IF card.fields[key].kind = "missing" THEN FStr(<<>>) ELSE card.fields[key]

\* the body of the loop over cards_data: the entry's descriptor, no
\* descriptor, or the AttributeError of .strip() on a value that is no string
ValidateCard(card) ==
    IF card.type # "dict" THEN [raised |-> FALSE, keep |-> <<>>]
    ELSE IF \E key \in CardKeys : Get(card, key).kind # "str"
         THEN [raised |-> TRUE, keep |-> <<>>]
         ELSE LET a  == Strip(Get(card, "author").s)
                  st == Strip(Get(card, "start").s)
                  en == Strip(Get(card, "end").s)
              IN  IF a # <<>> /\ st # <<>> /\ en # <<>>
                  THEN [raised |-> FALSE,
                        keep |-> <<[author |-> a, start |-> st, end |-> en]>>]
                  ELSE [raised |-> FALSE, keep |-> <<>>]

RECURSIVE ValidateFrom(_, _, _)
ValidateFrom(items, n, acc) ==
    IF n > Len(items) THEN [raised |-> FALSE, value |-> acc]
    ELSE LET r == ValidateCard(items[n])
         IN  IF r.raised THEN [raised |-> TRUE, value |-> <<>>]
             ELSE ValidateFrom(items, n + 1, acc \o r.keep)

ValidateAndCleanCards(data) ==
    IF data.type # "list" THEN [raised |-> FALSE, value |-> <<>>]
    ELSE ValidateFrom(data.items, 1, <<>>)

MaxEntries == 2

AuthorValues == {FMissing, FNum, FStr(<<>>), FStr(<<" ">>), FStr(<<" ", "a">>),
                 FStr(<<"b", " ">>)}

StartValues == {FMissing, FStr(<<" ", "\n">>), FStr(<<"a", " ", "b", " ">>)}

EndValues == {FStr(<<>>), FStr(<<"b">>)}

NoFields == [key \in CardKeys |-> FMissing]

JsonEntries ==
    {[type |-> "dict",
      fields |-> [key \in CardKeys |->
                    CASE key = "author" -> a [] key = "start" -> st [] key = "end" -> en]] :
        a \in AuthorValues, st \in StartValues, en \in EndValues}
    \cup {[type |-> "str", fields |-> NoFields], [type |-> "list", fields |-> NoFields]}

JsonLists ==
    {[type |-> "list", items |-> its] :
        its \in UNION {[1..m -> JsonEntries] : m \in 0..MaxEntries}}

JsonNonLists == {[type |-> t, items |-> <<>>] : t \in {"null", "dict", "str"}}

ValIdle ==
    /\ cards_data = [type |-> "null", items |-> <<>>]
    /\ v_pc = "idle" /\ cleaned_cards = <<>> /\ seen = {}

ValStart ==
    /\ cards_data \in JsonLists \cup JsonNonLists
    /\ v_pc = "call"
    /\ cleaned_cards = <<>>
    /\ seen = {}

MaxOutcomeEntries == 1

\* the oracle outputs of the documents of a run
OutcomeInputs ==
    JsonNonLists \cup {d \in JsonLists : Len(d.items) <= MaxOutcomeEntries}

OutcomeStart ==
    /\ cards_data \in OutcomeInputs
    /\ v_pc = "call"
    /\ cleaned_cards = <<>>
    /\ seen = {}

\* what the caller was given when it had no list, and when it had a list with
\* no valid descriptor in it
Outcome(data, value) ==
    IF data.type # "list" THEN {[case |-> "no_list", ret |-> value]}
    ELSE IF value = <<>> THEN {[case |-> "zero_card", ret |-> value]}
    ELSE {}

ValidateCall ==
    /\ v_pc = "call"
    /\ LET r == ValidateAndCleanCards(cards_data)
       IN  \/ /\ ~r.raised
              /\ v_pc' = "returned"
              /\ cleaned_cards' = r.value
              /\ seen' = seen \cup Outcome(cards_data, r.value)
           \/ /\ r.raised
              /\ v_pc' = "raised"
              /\ UNCHANGED <<cleaned_cards, seen>>
    /\ UNCHANGED <<cards_data, matchVars, oracleVars, extractVars, cleanVars>>

\* the next document's oracle output (process_directory's loop)
ValidateNext ==
    /\ v_pc \in {"returned", "raised"}
    /\ \E data \in OutcomeInputs : cards_data' = data
    /\ v_pc' = "call"
    /\ cleaned_cards' = <<>>
    /\ UNCHANGED <<seen, matchVars, oracleVars, extractVars, cleanVars>>

(***************************************************************************)
(* identify_card_boundaries                                                *)
(*                                                                         *)
(* The oracle's answer is one of: the client raising ("api_error"), a text *)
(* the pattern \[\s*\{.*?\}\s*\] does not match ("no_match"), a matched    *)
(* text json.loads rejects ("bad_json"), a matched text parsed to data.    *)
(***************************************************************************)
\* a text matched by the pattern parses to a list that starts with an object
MatchedLists == {d \in JsonLists : d.items # <<>> /\ d.items[1].type = "dict"}

Responses ==
    {[kind |-> k, data |-> [type |-> "null", items |-> <<>>]] :
        k \in {"api_error", "no_match", "bad_json"}}
    \cup {[kind |-> "json", data |-> d] : d \in MatchedLists}

OracleIdle ==
    /\ o_pc = "idle" /\ o_calls = 0 /\ o_result = <<>> /\ o_slept = 0
    /\ o_response = [kind |-> "none", data |-> [type |-> "null", items |-> <<>>]]

OracleStart ==
    /\ o_pc = "start" /\ o_calls = 0 /\ o_result = <<>> /\ o_slept = 0
    /\ o_response = [kind |-> "none", data |-> [type |-> "null", items |-> <<>>]]

\* client.messages.create(...).content[0].text
CallOracle ==
    /\ o_pc = "start"
    /\ o_calls' = o_calls + 1
    /\ \E r \in Responses :
         /\ o_response' = r
         /\ o_pc' = IF r.kind = "api_error" THEN "raised" ELSE "responded"
    /\ UNCHANGED <<o_result, o_slept, matchVars, valVars, extractVars, cleanVars>>

\* re.search, json.loads, validate_and_clean_cards, the return of a non-empty list
ParseResponse ==
    /\ o_pc = "responded"
    /\ \/ /\ o_response.kind = "no_match"
          /\ o_pc' = "retrying"
          /\ UNCHANGED o_result
       \/ /\ o_response.kind = "bad_json"
          /\ o_pc' = "returned"
          /\ o_result' = <<>>
       \/ /\ o_response.kind = "json"
          /\ LET r == ValidateAndCleanCards(o_response.data)
             IN  IF r.raised THEN o_pc' = "raised" /\ UNCHANGED o_result
                 ELSE IF r.value # <<>> THEN o_pc' = "returned" /\ o_result' = r.value
                 ELSE o_pc' = "retrying" /\ UNCHANGED o_result
    /\ UNCHANGED <<o_calls, o_response, o_slept, matchVars, valVars, extractVars, cleanVars>>

\* print("Invalid or empty response from Anthropic. Retrying..."); time.sleep(1);
\* return []
GiveUp ==
    /\ o_pc = "retrying"
    /\ o_slept' = o_slept + 1
    /\ o_result' = <<>>
    /\ o_pc' = "returned"
    /\ UNCHANGED <<o_calls, o_response, matchVars, valVars, extractVars, cleanVars>>

(***************************************************************************)
(* Markup and trees                                                        *)
(***************************************************************************)
TagNames == {"p", "strong", "span"}

OpenTag == [n \in TagNames |->
              CASE n = "p" -> "<p>" [] n = "strong" -> "<strong>" [] n = "span" -> "<span>"]

CloseTag == [n \in TagNames |->
               CASE n = "p" -> "</p>" [] n = "strong" -> "</strong>" [] n = "span" -> "</span>"]

IsOpen(sym) == \E n \in TagNames : OpenTag[n] = sym

IsClose(sym) == \E n \in TagNames : CloseTag[n] = sym

NameOfOpen(sym) == CHOOSE n \in TagNames : OpenTag[n] = sym

\* html.escape(s), quote=True
HtmlEscape(s) ==
    [n \in 1..Len(s) |->
        CASE s[n] = "&" -> "&amp;" [] s[n] = "<" -> "&lt;" [] s[n] = "'" -> "&#x27;"
          [] OTHER -> s[n]]

\* the character an entity stands for
EntityChar(sym) ==
    CASE sym = "&amp;" -> "&" [] sym = "&lt;" -> "<" [] sym = "&#x27;" -> "'"
      [] sym = "&nbsp;" -> NBSP [] OTHER -> sym

\* html.unescape(s)
HtmlUnescape(s) == [n \in 1..Len(s) |-> EntityChar(s[n])]

\* the text of a string node as str(node) writes it (formatter "minimal")
EscapeText(s) ==
    [n \in 1..Len(s) |->
        CASE s[n] = "&" -> "&amp;" [] s[n] = "<" -> "&lt;" [] OTHER -> s[n]]

TextNode(s, parent) == [name |-> "#text", text |-> s, parent |-> parent]

TagNode(name, parent) == [name |-> name, text |-> <<>>, parent |-> parent]

Top(stack) == IF stack = <<>> THEN 0 ELSE stack[Len(stack)]

IsTag(sym) == IsOpen(sym) \/ IsClose(sym)

RECURSIVE ParseFrom(_, _, _, _)
ParseFrom(m, n, stack, nodes) ==
    IF n > Len(m) THEN nodes
    ELSE IF IsOpen(m[n])
         THEN ParseFrom(m, n + 1, Append(stack, Len(nodes) + 1),
                        Append(nodes, TagNode(NameOfOpen(m[n]), Top(stack))))
    ELSE IF IsClose(m[n])
         THEN ParseFrom(m, n + 1,
                        IF stack = <<>> THEN stack ELSE SubSeq(stack, 1, Len(stack) - 1),
                        nodes)
    ELSE \* the characters up to the next tag make one string node
         LET e == CHOOSE x \in n..Len(m) :
                     /\ \A y \in n..x : ~IsTag(m[y])
                     /\ (x = Len(m) \/ IsTag(m[x + 1]))
         IN  ParseFrom(m, e + 1, stack,
                       Append(nodes, TextNode(HtmlUnescape(SubSeq(m, n, e)), Top(stack))))

\* BeautifulSoup(markup, 'html.parser'): the nodes in document order
Parse(m) == ParseFrom(m, 1, <<>>, <<>>)

RECURSIVE IsUnder(_, _, _)
\* node k is node a or lies inside it (a = 0: the whole soup)
IsUnder(t, k, a) ==
    IF k = a THEN TRUE ELSE IF k = 0 THEN FALSE ELSE IsUnder(t, t[k].parent, a)

\* the last node of a's subtree
LastUnder(t, a) ==
    IF a = 0 THEN Len(t)
    ELSE CHOOSE k \in a..Len(t) :
            /\ \A j \in a..k : IsUnder(t, j, a)
            /\ (k < Len(t) => ~IsUnder(t, k + 1, a))

RECURSIVE TextFrom(_, _, _)
TextFrom(t, k, last) == IF k > last THEN <<>> ELSE t[k].text \o TextFrom(t, k + 1, last)

\* node.get_text(): the text of the string nodes of the subtree, in order
GetText(t, a) == TextFrom(t, IF a = 0 THEN 1 ELSE a, LastUnder(t, a))

\* node.next_element (0: None)
NextElement(t, a) == IF a < Len(t) THEN a + 1 ELSE 0

\* node.next_sibling (0: None)
NextSibling(t, a) ==
    LET n == LastUnder(t, a) + 1
    IN  IF n <= Len(t) /\ t[n].parent = t[a].parent THEN n ELSE 0

FirstChild(t, a) == IF a < Len(t) /\ t[a + 1].parent = a THEN a + 1 ELSE 0

RECURSIVE Serialize(_, _), SerializeFrom(_, _)
\* str(node)
Serialize(t, a) ==
    IF t[a].name = "#text" THEN EscapeText(t[a].text)
    ELSE <<OpenTag[t[a].name]>> \o SerializeFrom(t, FirstChild(t, a)) \o <<CloseTag[t[a].name]>>

SerializeFrom(t, k) ==
    IF k = 0 THEN <<>> ELSE Serialize(t, k) \o SerializeFrom(t, NextSibling(t, k))

\* str(soup)
SerializeSoup(t) == IF t = <<>> THEN <<>> ELSE SerializeFrom(t, 1)

\* a == b on nodes: the same node, two equal strings, or two tags of the same
\* name with equal contents
NodeEq(t, a, b) ==
    \/ a = b
    \/ /\ (t[a].name = "#text") <=> (t[b].name = "#text")
       /\ Serialize(t, a) = Serialize(t, b)

\* the soup without its nodes lo..hi (whole subtrees)
RemoveRange(t, lo, hi) ==
    LET d == hi - lo + 1
    IN  [k \in 1..(Len(t) - d) |->
            LET old == IF k < lo THEN t[k] ELSE t[k + d]
            IN  [old EXCEPT !.parent = IF @ > hi THEN @ - d ELSE @]]

\* the soup with node placed right after position pos
InsertAfter(t, pos, node) ==
    [k \in 1..(Len(t) + 1) |->
        IF k <= pos THEN t[k]
        ELSE IF k = pos + 1 THEN node
        ELSE [t[k - 1] EXCEPT !.parent = IF @ > pos THEN @ + 1 ELSE @]]

(***************************************************************************)
(* extract_formatted_text: the markup of a document.  A document is a      *)
(* sequence of paragraphs, a paragraph a sequence of runs [text, wrap].    *)
(***************************************************************************)
Run(s, wrap) == [text |-> s, wrap |-> wrap]

RunHtml(run) ==
    IF run.wrap = "none" THEN HtmlEscape(run.text)
    ELSE <<OpenTag[run.wrap]>> \o HtmlEscape(run.text) \o <<CloseTag[run.wrap]>>

RECURSIVE ParaHtml(_)
ParaHtml(runs) == IF runs = <<>> THEN <<>> ELSE RunHtml(Head(runs)) \o ParaHtml(Tail(runs))

RECURSIVE FormatParagraphs(_)
\* '\n'.join(f'<p>{"".join(para_html)}</p>' ...)
FormatParagraphs(doc) ==
    IF doc = <<>> THEN <<>>
    ELSE <<"<p>">> \o ParaHtml(Head(doc)) \o <<"</p>">>
         \o (IF Len(doc) > 1 THEN <<"\n">> \o FormatParagraphs(Tail(doc)) ELSE <<>>)

(***************************************************************************)
(* extract_card_html                                                       *)
(***************************************************************************)
\* soup.find_all(['p', 'div', 'span']) visits these nodes, in document order
IsCandidate(t, k) == t[k].name \in {"p", "div", "span"}

RECURSIVE FindStartFrom(_, _, _)
\* the first candidate at or after k whose text matches; raised: flexible_match
\* raised on the first candidate it was called on
FindStartFrom(t, tgt, k) ==
    IF k > Len(t) THEN [raised |-> FALSE, elem |-> 0]
    ELSE IF ~IsCandidate(t, k) THEN FindStartFrom(t, tgt, k + 1)
    ELSE LET r == FlexibleMatch(tgt, GetText(t, k), DefaultThreshold)
         IN  IF r.raised THEN [raised |-> TRUE, elem |-> 0]
             ELSE IF r.value THEN [raised |-> FALSE, elem |-> k]
             ELSE FindStartFrom(t, tgt, k + 1)

RECURSIVE FindEndFrom(_, _, _)
\* while current: ... current = current.next_element
FindEndFrom(t, tgt, current) ==
    IF current = 0 THEN [raised |-> FALSE, elem |-> 0]
    ELSE LET r == FlexibleMatch(tgt, GetText(t, current), DefaultThreshold)
         IN  IF r.raised THEN [raised |-> TRUE, elem |-> 0]
             ELSE IF r.value THEN [raised |-> FALSE, elem |-> current]
             ELSE FindEndFrom(t, tgt, NextElement(t, current))

\* current = current.next_element where next_sibling was meant
WalkNextElement(t, current) == NextElement(t, current)

\* current = current.next_sibling
WalkNext(t, current) == NextSibling(t, current)

RECURSIVE MaterializeWalk(_, _, _, _, _)
\* full_content and the nodes it was taken from
MaterializeWalk(t, current, end, full_content, visited) ==
    IF current = 0 THEN [html |-> full_content, nodes |-> visited]
    ELSE LET more == full_content \o Serialize(t, current)
         IN  IF NodeEq(t, current, end)
             THEN [html |-> more, nodes |-> Append(visited, current)]
             ELSE MaterializeWalk(t, WalkNext(t, current), end, more,
                                  Append(visited, current))

SchemeLen(m, n) ==
    IF OccursAt(m, <<"h", "t", "t", "p", "s", ":", "/", "/">>, n) THEN 8
    ELSE IF OccursAt(m, <<"h", "t", "t", "p", ":", "/", "/">>, n) THEN 7
    ELSE 0

\* re.search(r'https?://\S+', full_html): the match, or ''
ExtractUrl(m) ==
    LET starts == {n \in 1..Len(m) :
                     /\ SchemeLen(m, n) > 0
                     /\ n + SchemeLen(m, n) <= Len(m)
                     /\ ~IsSpace(m[n + SchemeLen(m, n)])}
    IN  IF starts = {} THEN <<>>
        ELSE LET n == CHOOSE x \in starts : \A y \in starts : x <= y
                 e == CHOOSE x \in n..Len(m) :
                        /\ \A y \in n..x : ~IsSpace(m[y])
                        /\ (x < Len(m) => IsSpace(m[x + 1]))
             IN  SubSeq(m, n, e)

\* break where continue was meant: no card after this one is processed
Break(n) == Len(cards) + 1

\* continue: on to the next card
Continue(n) == n + 1

NoAnchor == [start |-> 0, end |-> 0, nodes |-> <<>>, card |-> 0]

\* for card in cards: ... html.unescape(card['start']), html.unescape(card['end'])
BeginCard ==
    /\ pc = "loop"
    /\ i <= Len(cards)
    /\ start_text' = HtmlUnescape(cards[i].start)
    /\ end_text' = HtmlUnescape(cards[i].end)
    /\ start_elem' = 0
    /\ end_elem' = 0
    /\ pc' = "find_start"
    /\ UNCHANGED <<soup, cards, i, cards_with_html, log, anchors, cleaned,
                   matchVars, valVars, oracleVars, cleanVars>>

FindStart ==
    /\ pc = "find_start"
    /\ LET r == FindStartFrom(soup, start_text, 1)
       IN  \/ /\ r.raised
              /\ log' = Append(log, [msg |-> "error", author |-> cards[i].author])
              /\ i' = Continue(i)
              /\ pc' = "loop"
              /\ UNCHANGED <<start_elem, anchors>>
           \/ /\ ~r.raised
              /\ r.elem = 0
              /\ log' = Append(log, [msg |-> "no_start", author |-> cards[i].author])
              /\ i' = Continue(i)
              /\ pc' = "loop"
              /\ UNCHANGED <<start_elem, anchors>>
           \/ /\ ~r.raised
              /\ r.elem # 0
              /\ start_elem' = r.elem
              /\ anchors' = [anchors EXCEPT ![i].start = r.elem]
              /\ pc' = "find_end"
              /\ UNCHANGED <<log, i>>
    /\ UNCHANGED <<soup, cards, start_text, end_text, end_elem, cards_with_html, cleaned,
                   matchVars, valVars, oracleVars, cleanVars>>

FindEnd ==
    /\ pc = "find_end"
    /\ LET r == FindEndFrom(soup, end_text, start_elem)
       IN  \/ /\ r.raised
              /\ log' = Append(log, [msg |-> "error", author |-> cards[i].author])
              /\ i' = Continue(i)
              /\ pc' = "loop"
              /\ UNCHANGED <<end_elem, anchors>>
           \/ /\ ~r.raised
              /\ r.elem = 0
              /\ log' = Append(log, [msg |-> "no_end", author |-> cards[i].author])
              /\ i' = Continue(i)
              /\ pc' = "loop"
              /\ UNCHANGED <<end_elem, anchors>>
           \/ /\ ~r.raised
              /\ r.elem # 0
              /\ end_elem' = r.elem
              /\ anchors' = [anchors EXCEPT ![i].end = r.elem]
              /\ pc' = "materialize"
              /\ UNCHANGED <<log, i>>
    /\ UNCHANGED <<soup, cards, start_text, end_text, start_elem, cards_with_html, cleaned,
                   matchVars, valVars, oracleVars, cleanVars>>

\* the sibling walk, the URL, cards_with_html.append(...)
Materialize ==
    /\ pc = "materialize"
    /\ LET w == MaterializeWalk(soup, start_elem, end_elem, <<>>, <<>>)
       IN  /\ cards_with_html' =
                Append(cards_with_html,
                       [author |-> cards[i].author, url |-> ExtractUrl(w.html),
                        html_content |-> w.html])
           /\ anchors' = [anchors EXCEPT ![i].nodes = w.nodes,
                                         ![i].card = Len(cards_with_html) + 1]
    /\ i' = i + 1
    /\ pc' = "loop"
    /\ UNCHANGED <<soup, cards, start_text, end_text, start_elem, end_elem, log, cleaned,
                   matchVars, valVars, oracleVars, cleanVars>>

\* return cards_with_html
ReturnCards ==
    /\ pc = "loop"
    /\ i > Len(cards)
    /\ pc' = "clean"
    /\ i' = 1
    /\ UNCHANGED <<soup, cards, start_text, end_text, start_elem, end_elem,
                   cards_with_html, log, anchors, cleaned,
                   matchVars, valVars, oracleVars, cleanVars>>

(***************************************************************************)
(* clean_card_content                                                      *)
(***************************************************************************)
\* parts[1:] where parts[2:] was meant
PiecesFromSecond(parts) == SubSeq(parts, 2, Len(parts))

\* parts[2:]
PiecesFromThird(parts) == SubSeq(parts, 3, Len(parts))

\* elem.string = s: the contents of elem replaced by one string node
SetString(t, elem, s) ==
    LET last == LastUnder(t, elem)
        cleared == IF elem = 0 THEN <<>>
                   ELSE IF last > elem THEN RemoveRange(t, elem + 1, last)
                   ELSE t
    IN  InsertAfter(cleared, elem, TextNode(s, elem))

\* the soup after the cleaning, with first_elem (-1: no string node holds the
\* author) and the parts the text of first_elem was split into
CleanSoup(markup, auth) ==
    LET t0 == Parse(markup)
        hits == {k \in 1..Len(t0) : t0[k].name = "#text" /\ Contains(t0[k].text, auth)}
    IN  IF hits = {} THEN [soup |-> t0, first |-> -1, parts |-> <<>>]
        ELSE LET author_elem == CHOOSE k \in hits : \A j \in hits : k <= j
                 parent == t0[author_elem].parent
                 above  == IF parent = 0 THEN 0 ELSE t0[parent].parent
                 \* for elem in list(author_elem.parent.previous_siblings): elem.decompose()
                 t1 == IF parent = 0 \/ parent = above + 1 THEN t0
                       ELSE RemoveRange(t0, above + 1, parent - 1)
                 first_elem == IF parent = 0 THEN 0 ELSE above + 1
                 parts == Split(GetText(t1, first_elem), auth)
                 t2 == IF Len(parts) > 2
                       THEN SetString(t1, first_elem, auth \o Join(PiecesFromThird(parts)))
                       ELSE t1
             IN  [soup |-> t2, first |-> first_elem, parts |-> parts]

\* return str(soup)
CleanCardContent(markup, auth) == SerializeSoup(CleanSoup(markup, auth).soup)

\* process_document: for i, card in enumerate(cards_with_html): clean and store
CleanCard ==
    /\ pc = "clean"
    /\ i <= Len(cards_with_html)
    /\ cleaned' = Append(cleaned, CleanCardContent(cards_with_html[i].html_content,
                                                   cards_with_html[i].author))
    /\ i' = i + 1
    /\ UNCHANGED <<soup, cards, pc, start_text, end_text, start_elem, end_elem,
                   cards_with_html, log, anchors,
                   matchVars, valVars, oracleVars, cleanVars>>

Finish ==
    /\ pc = "clean"
    /\ i > Len(cards_with_html)
    /\ pc' = "done"
    /\ UNCHANGED <<soup, cards, i, start_text, end_text, start_elem, end_elem,
                   cards_with_html, log, anchors, cleaned,
                   matchVars, valVars, oracleVars, cleanVars>>

CleanCall ==
    /\ c_pc = "call"
    /\ LET r == CleanSoup(html_content, author)
       IN  /\ c_soup' = r.soup
           /\ c_first' = r.first
           /\ c_parts' = r.parts
    /\ c_pc' = "returned"
    /\ UNCHANGED <<html_content, author, matchVars, valVars, oracleVars, extractVars>>

(***************************************************************************)
(* Inputs                                                                  *)
(***************************************************************************)
ExBlock0 == <<"A", "l", "i", "c", "e", " ", "'", "2", "0", " ",
              "a", "r", "g", "u", "e", "s", " ", "X", ".">>

ExBlock1 == <<"T", "h", "i", "s", " ", "c", "o", "n", "t", "i", "n", "u", "e", "s", ".">>

ExBlock2 == <<"B", "o", "b", " ", "'", "1", "9", " ", "c", "l", "a", "i", "m", "s", " ",
              "Y", ".">>

ExampleAuthor == <<"A", "l", "i", "c", "e", " ", "'", "2", "0">>

ExampleDoc == <<<<Run(ExBlock0, "none")>>, <<Run(ExBlock1, "none")>>,
                <<Run(ExBlock2, "none")>>>>

ExampleSoup == Parse(FormatParagraphs(ExampleDoc))

ExampleCard ==
    [author |-> ExampleAuthor,
     start |-> SubSeq(ExBlock0, 1, Len(ExBlock0) - 1),
     end |-> <<"c", "o", "n", "t", "i", "n", "u", "e", "s">>]

\* the same descriptor with the blocks' punctuation kept
ExamplePunctCard ==
    [author |-> ExampleAuthor,
     start |-> ExBlock0,
     end |-> <<"c", "o", "n", "t", "i", "n", "u", "e", "s", ".">>]

Paragraphs ==
    { <<Run(<<"a", " ", "b">>, "none")>>,
      <<Run(<<"b", " ", "a">>, "none")>>,
      <<Run(<<"a">>, "strong"),
        Run(<<"c", " ", "h", "t", "t", "p", ":", "/", "/", "u">>, "none")>>,
      <<Run(<<"c">>, "span"), Run(<<"d">>, "none")>> }

Descriptors ==
    { [author |-> <<"a">>, start |-> <<"a", " ", "b">>, end |-> <<"b">>],
      [author |-> <<"b">>, start |-> <<"b", " ", "a">>, end |-> <<"a">>],
      [author |-> <<"a">>, start |-> <<"a", " ", "b">>, end |-> <<"a", "c">>],
      [author |-> <<"c">>, start |-> <<"c">>, end |-> <<"d">>],
      [author |-> <<"b">>, start |-> <<"a", " ", "b">>, end |-> <<"c">>],
      [author |-> <<"a">>, start |-> <<"&nbsp;">>, end |-> <<"a">>] }

MaxBlocks == 2

MaxCards == 2

Docs == UNION {[1..m -> Paragraphs] : m \in 0..MaxBlocks}

CardLists == UNION {[1..m -> Descriptors] : m \in 0..MaxCards}

ExtractIdle ==
    /\ soup = <<>> /\ cards = <<>> /\ pc = "idle" /\ i = 0
    /\ start_text = <<>> /\ end_text = <<>> /\ start_elem = 0 /\ end_elem = 0
    /\ cards_with_html = <<>> /\ log = <<>> /\ anchors = <<>> /\ cleaned = <<>>

ExtractStart ==
    /\ \/ /\ soup \in {Parse(FormatParagraphs(d)) : d \in Docs}
          /\ cards \in CardLists
       \/ /\ soup = ExampleSoup
          /\ cards \in {<<ExampleCard>>, <<ExamplePunctCard>>}
    /\ pc = "loop" /\ i = 1
    /\ start_text = <<>> /\ end_text = <<>> /\ start_elem = 0 /\ end_elem = 0
    /\ cards_with_html = <<>> /\ log = <<>> /\ cleaned = <<>>
    /\ anchors = [n \in 1..Len(cards) |-> NoAnchor]

ExampleDupText == ExampleAuthor \o <<" ">> \o ExampleAuthor
                  \o <<" ", "a", "r", "g", "u", "e", "s", " ", "X", " ", "a", "n", "d", " ", "Y">>

MaxTextLen == 8

CleanAuthors == {<<"a", "b">>, <<"a">>}

CleanShapes == {"p", "after_p", "bold", "loose"}

\* a fragment whose author-bearing text is s
CleanShape(kind, s, auth) ==
    CASE kind = "p" -> <<"<p>">> \o s \o <<"</p>">>
      [] kind = "after_p" -> <<"<p>", "b", "</p>", "\n", "<p>">> \o s \o <<"</p>">>
      [] kind = "bold" ->
            LET k == IF Len(auth) < Len(s) THEN Len(auth) ELSE Len(s)
            IN  IF k = 0 THEN <<"<p>", "</p>">>
                ELSE <<"<p>", "<strong>">> \o SubSeq(s, 1, k) \o <<"</strong>">>
                     \o SubSeq(s, k + 1, Len(s)) \o <<"</p>">>
      [] kind = "loose" -> <<"<span>", "b", "</span>">> \o s

CleanIdle ==
    /\ html_content = <<>> /\ author = <<>> /\ c_pc = "idle"
    /\ c_soup = <<>> /\ c_first = -1 /\ c_parts = <<>>

CleanStart ==
    /\ \/ /\ author \in CleanAuthors
          /\ html_content \in {CleanShape(k, s, author) :
                                  k \in CleanShapes, s \in Strings({"a", "b"}, MaxTextLen)}
       \/ /\ author = ExampleAuthor
          /\ html_content \in {CleanShape(k, ExampleDupText, ExampleAuthor) : k \in CleanShapes}
    /\ c_pc = "call"
    /\ c_soup = <<>> /\ c_first = -1 /\ c_parts = <<>>

(***************************************************************************)
(* Specifications                                                          *)
(***************************************************************************)
Init == MatchIdle /\ ValIdle /\ OracleIdle /\ ExtractStart /\ CleanIdle

Next == BeginCard \/ FindStart \/ FindEnd \/ Materialize \/ ReturnCards
        \/ CleanCard \/ Finish

\* extract_card_html on a document and its validated descriptors, then the
\* cleaning of each card (process_document)
Spec == Init /\ [][Next]_vars

InitMatch == MatchStart /\ ValIdle /\ OracleIdle /\ ExtractIdle /\ CleanIdle

NextMatch == FlexibleMatchCall

\* flexible_match on every pair of short strings
SpecMatch == InitMatch /\ [][NextMatch]_vars

InitValidate == MatchIdle /\ ValStart /\ OracleIdle /\ ExtractIdle /\ CleanIdle

NextValidate == ValidateCall

\* validate_and_clean_cards on every short parsed value
SpecValidate == InitValidate /\ [][NextValidate]_vars

InitOutcome == MatchIdle /\ OutcomeStart /\ OracleIdle /\ ExtractIdle /\ CleanIdle

NextOutcome == ValidateCall \/ ValidateNext

\* validate_and_clean_cards on the oracle output of one document after another
SpecOutcome == InitOutcome /\ [][NextOutcome]_vars

InitOracle == MatchIdle /\ ValIdle /\ OracleStart /\ ExtractIdle /\ CleanIdle

NextOracle == CallOracle \/ ParseResponse \/ GiveUp

\* identify_card_boundaries on one document
SpecOracle == InitOracle /\ [][NextOracle]_vars

InitClean == MatchIdle /\ ValIdle /\ OracleIdle /\ ExtractIdle /\ CleanStart

NextClean == CleanCall

\* clean_card_content on every short fragment
SpecClean == InitClean /\ [][NextClean]_vars

(***************************************************************************)
(* Properties                                                              *)
(***************************************************************************)
MinOf(S) == CHOOSE x \in S : \A y \in S : x <= y

MaxOf(S) == CHOOSE x \in S : \A y \in S : x >= y

IsPrefix(t, s) == OccursAt(s, t, 1)

IsSuffix(t, s) == Len(t) <= Len(s) /\ OccursAt(s, t, Len(s) - Len(t) + 1)

\* the top-level paragraphs of a soup, and the n-th of them (from 0)
TopBlocks(t) == {k \in 1..Len(t) : t[k].name = "p" /\ t[k].parent = 0}

BlockNode(t, n) ==
    CHOOSE k \in TopBlocks(t) : Cardinality({j \in TopBlocks(t) : j < k}) = n

\* the text of node k passes flexible_match for tgt, without error
Matches(t, tgt, k) ==
    LET r == FlexibleMatch(tgt, GetText(t, k), DefaultThreshold)
    IN  ~r.raised /\ r.value

\* the first candidate node that matches the descriptor's start (0: none)
StartAnchor(t, d) ==
    LET hits == {k \in 1..Len(t) : IsCandidate(t, k) /\ Matches(t, HtmlUnescape(d.start), k)}
    IN  IF hits = {} THEN 0 ELSE MinOf(hits)

\* the descriptor has a start anchor and, from it on, an end anchor
HasAnchors(t, d) ==
    /\ StartAnchor(t, d) # 0
    /\ \E e \in StartAnchor(t, d)..Len(t) : Matches(t, HtmlUnescape(d.end), e)

\* C1 as stated: the worked example (descriptor start "Alice '20 argues X",
\* end "continues") resolves the start anchor to block 0 and the end anchor to
\* block 1, and reports neither start-not-found nor end-not-found.
C1_ExampleAnchors ==
    (pc = "done" /\ soup = ExampleSoup /\ cards = <<ExampleCard>>)
        => /\ anchors[1].start = BlockNode(soup, 0)
           /\ anchors[1].end = BlockNode(soup, 1)
           /\ log = <<>>

\* C1 as amended: on the example document the descriptor of the example is
\* reported start-not-found and yields no card (block 0 holds 3 of its 4 start
\* tokens); the same descriptor with the blocks' punctuation kept resolves to
\* block 0 and block 1 with nothing reported.
C1_ExampleAmended ==
    (pc = "done" /\ soup = ExampleSoup)
        => /\ cards = <<ExampleCard>> =>
                /\ log = <<[msg |-> "no_start", author |-> ExampleAuthor]>>
                /\ cards_with_html = <<>>
                /\ anchors[1] = NoAnchor
           /\ cards = <<ExamplePunctCard>> =>
                /\ anchors[1].start = BlockNode(soup, 0)
                /\ anchors[1].end = BlockNode(soup, 1)
                /\ log = <<>>
                /\ Len(cards_with_html) = 1

C1_Witness ==
    /\ pc = "done" /\ soup = ExampleSoup /\ cards = <<ExampleCard>>
    /\ Len(log) = 1

\* C2: when extract_card_html has gone through the descriptors, the output
\* holds exactly one card for each descriptor that has both anchors, in the
\* descriptors' order, wherever the failing descriptors stand in the list.
C2_FailureIsolation ==
    pc \in {"clean", "done"} =>
        LET good == {n \in 1..Len(cards) : HasAnchors(soup, cards[n])}
            rank(n) == Cardinality({m \in good : m <= n})
        IN  /\ Len(cards_with_html) = Cardinality(good)
            /\ \A n \in 1..Len(cards) :
                 IF n \in good
                 THEN /\ anchors[n].card = rank(n)
                      /\ cards_with_html[rank(n)].author = cards[n].author
                 ELSE anchors[n].card = 0

C2_Witness ==
    /\ pc = "done"
    /\ Len(cards) = 2
    /\ ~HasAnchors(soup, cards[1])
    /\ HasAnchors(soup, cards[2])
    /\ Len(cards_with_html) = 1
    /\ Len(log) = 1

\* the node the sibling walk from a stops at: the first of a and its following
\* siblings that equals e, or the last sibling
StopNode(t, a, e) ==
    LET sibs == {k \in a..Len(t) : t[k].parent = t[a].parent}
        eq == {k \in sibs : NodeEq(t, k, e)}
    IN  IF eq # {} THEN MinOf(eq) ELSE MaxOf(sibs)

RECURSIVE ConcatMarkup(_, _, _, _)
ConcatMarkup(t, k, stop, parent) ==
    IF k > stop THEN <<>>
    ELSE (IF t[k].parent = parent THEN Serialize(t, k) ELSE <<>>)
         \o ConcatMarkup(t, k + 1, stop, parent)

ExpectedFragment(t, a, e) == ConcatMarkup(t, a, StopNode(t, a, e), t[a].parent)

\* C3: the fragment of a card is the markup of its start node and of the
\* following siblings up to and including the first that equals the end node,
\* or of all of them when none does; for a span (node, node) it is the node's
\* markup.
C3_MaterializerWalk ==
    \A n \in DOMAIN anchors :
        anchors[n].card # 0 =>
            LET c == cards_with_html[anchors[n].card]
            IN  /\ c.html_content =
                      ExpectedFragment(soup, anchors[n].start, anchors[n].end)
                /\ anchors[n].start = anchors[n].end =>
                      c.html_content = Serialize(soup, anchors[n].start)

C3_Witness ==
    /\ pc = "done"
    /\ \E n \in DOMAIN anchors :
         /\ anchors[n].card # 0
         /\ Len(anchors[n].nodes) >= 3
         /\ anchors[n].nodes[Len(anchors[n].nodes)] = anchors[n].end
    /\ \E n \in DOMAIN anchors :
         /\ anchors[n].card # 0
         /\ \A m \in DOMAIN anchors[n].nodes : anchors[n].nodes[m] # anchors[n].end

\* descriptor d quotes the document: its start begins block b, its end ends block e
Quotes(t, d, b, e) ==
    /\ IsPrefix(HtmlUnescape(d.start), GetText(t, b))
    /\ IsSuffix(HtmlUnescape(d.end), GetText(t, e))

\* two descriptors that quote two cards of the document, in document order
TwoCardsInOrder ==
    /\ Len(cards) = 2
    /\ \E b1, e1, b2, e2 \in TopBlocks(soup) :
         /\ b1 <= e1 /\ e1 < b2 /\ b2 <= e2
         /\ Quotes(soup, cards[1], b1, e1)
         /\ Quotes(soup, cards[2], b2, e2)

\* C4: a document with two cards whose descriptors come in document order
\* yields two cards with the descriptors' authors, and no node of the document
\* is serialized into both fragments.
C4_NoOverlap ==
    (pc = "done" /\ TwoCardsInOrder) =>
        /\ Len(cards_with_html) = 2
        /\ cards_with_html[1].author = cards[1].author
        /\ cards_with_html[2].author = cards[2].author
        /\ \A x \in DOMAIN anchors[1].nodes, y \in DOMAIN anchors[2].nodes :
             /\ ~IsUnder(soup, anchors[1].nodes[x], anchors[2].nodes[y])
             /\ ~IsUnder(soup, anchors[2].nodes[y], anchors[1].nodes[x])
        /\ LastUnder(soup, anchors[1].nodes[Len(anchors[1].nodes)]) < anchors[2].start

NotSpace(c) == ~IsSpace(c)

\* a text without its whitespace, in lower case
Norm(s) == Lower(SelectSeq(s, NotSpace))

\* C10: every card has a non-empty author, and the text of its cleaned
\* fragment begins with the author, case and whitespace apart.
C10_AuthorPrefix ==
    pc = "done" =>
        \A c \in 1..Len(cards_with_html) :
            /\ cards_with_html[c].author # <<>>
            /\ IsPrefix(Norm(cards_with_html[c].author),
                        Norm(GetText(Parse(cleaned[c]), 0)))

RECURSIVE OccurrencesFrom(_, _, _)
\* where a occurs in s from n on, left to right without overlap
OccurrencesFrom(s, a, n) ==
    LET hits == {k \in n..Len(s) : OccursAt(s, a, k)}
    IN  IF hits = {} THEN {}
        ELSE {MinOf(hits)} \cup OccurrencesFrom(s, a, MinOf(hits) + Len(a))

\* s.count(a)
Count(s, a) == Cardinality(OccurrencesFrom(s, a, 1))

\* s after the second occurrence of a, without the later occurrences of a
AfterSecond(s, a) ==
    LET occ == OccurrencesFrom(s, a, 1)
        from == Nth(occ, 2) + Len(a)
        kept == {n \in from..Len(s) : \A h \in occ : n < h \/ n >= h + Len(a)}
    IN  [k \in 1..Cardinality(kept) |-> s[Nth(kept, k)]]

\* the element that holds the first string node with the author, before the
\* cleaning, and its text
OrigSoup == Parse(html_content)

OrigElem ==
    OrigSoup[MinOf({k \in 1..Len(OrigSoup) :
                      OrigSoup[k].name = "#text" /\ Contains(OrigSoup[k].text, author)})].parent

OrigText == GetText(OrigSoup, OrigElem)

CleanedText == GetText(c_soup, c_first)

\* C5 as stated: when the author occurs at least twice in the element's text,
\* the cleaned element's text begins with the author and holds it exactly once.
C5_CollapsesToOne ==
    (c_pc = "returned" /\ c_first >= 0 /\ Count(OrigText, author) >= 2)
        => /\ IsPrefix(author, CleanedText)
           /\ Count(CleanedText, author) = 1

\* C5 as amended: when the author occurs at least twice in the element's text,
\* the cleaned text is the author followed by what comes after the second
\* occurrence with the later occurrences taken out; it begins with the author,
\* and holds it exactly once when the author occurred exactly twice; the
\* example text becomes "Alice '20 argues X and Y".
C5_CollapseAmended ==
    (c_pc = "returned" /\ c_first >= 0 /\ Count(OrigText, author) >= 2)
        => /\ CleanedText =
                author \o AfterSecond(OrigText, author)
           /\ IsPrefix(author, CleanedText)
           /\ Count(OrigText, author) = 2 => Count(CleanedText, author) = 1
           /\ OrigText = ExampleDupText =>
                CleanedText = ExampleAuthor \o SubSeq(ExampleDupText, 2 * Len(ExampleAuthor) + 2,
                                                      Len(ExampleDupText))

C5_Witness ==
    /\ c_pc = "returned"
    /\ author = ExampleAuthor
    /\ c_first >= 0
    /\ OrigText = ExampleDupText
    /\ Len(c_parts) = 3

HasText(s) == \E n \in 1..Len(s) : ~IsSpace(s[n])

\* an entry with author, start and end that are strings, non-empty once trimmed
WellFormed(e) ==
    /\ e.type = "dict"
    /\ \A key \in CardKeys : e.fields[key].kind = "str" /\ HasText(e.fields[key].s)

\* an entry of the kinds C6 is about: well-formed, no dict, or a dict
\* whose fields are strings or missing
Listed(e) == e.type # "dict" \/ \A key \in CardKeys : e.fields[key].kind # "num"

Trimmed(s) ==
    LET ns == {n \in 1..Len(s) : ~IsSpace(s[n])}
    IN  SubSeq(s, MinOf(ns), MaxOf(ns))

\* C6: for a list of well-formed and malformed entries, validate_and_clean_cards
\* returns, without error, the well-formed entries with trimmed fields, in
\* their order.
C6_ValidatorFilter ==
    (/\ v_pc \in {"returned", "raised"}
     /\ cards_data.type = "list"
     /\ \A n \in 1..Len(cards_data.items) : Listed(cards_data.items[n]))
        => LET items == cards_data.items
               good == {n \in 1..Len(items) : WellFormed(items[n])}
               rank(n) == Cardinality({m \in good : m <= n})
           IN  /\ v_pc = "returned"
               /\ Len(cleaned_cards) = Cardinality(good)
               /\ \A n \in good :
                    cleaned_cards[rank(n)] =
                        [author |-> Trimmed(items[n].fields["author"].s),
                         start |-> Trimmed(items[n].fields["start"].s),
                         end |-> Trimmed(items[n].fields["end"].s)]

C6_Witness ==
    /\ v_pc = "returned"
    /\ cards_data.type = "list"
    /\ Len(cards_data.items) = 2
    /\ Listed(cards_data.items[1]) /\ ~WellFormed(cards_data.items[1])
    /\ WellFormed(cards_data.items[2])
    /\ Len(cleaned_cards) = 1

\* the first answer is a failure: no match, no JSON, or no valid descriptor
FirstCallFailed ==
    \/ o_response.kind \in {"no_match", "bad_json"}
    \/ /\ o_response.kind = "json"
       /\ LET r == ValidateAndCleanCards(o_response.data)
          IN  ~r.raised /\ r.value = <<>>

\* C7: when the oracle's answer is a failure, identify_card_boundaries calls
\* the oracle exactly once more before it returns, and raises nothing.
C7_RetriesOnce ==
    (o_pc \in {"returned", "raised"} /\ FirstCallFailed)
        => o_pc = "returned" /\ o_calls = 2

\* C8: what the validation returns when there was no list differs from what
\* it returns when there was a list with no valid descriptor.
C8_Distinguishable ==
    \A p, q \in seen : p.case # q.case => p.ret # q.ret

\* C9: flexible_match(t, t, threshold) returns true, without error, for every
\* non-empty t and every threshold <= 1.
C9_Reflexive ==
    (/\ fm_pc \in {"returned", "raised"}
     /\ target = text
     /\ target # <<>>
     /\ threshold.num <= threshold.den)
        => fm_pc = "returned" /\ fm_value
====
